---- MODULE Spec2Model ----
(***************************************************************************)
(* A model of the Monkey interpreter of ZeroBl21/go-interpreter: the       *)
(* lexer (package lexer), the bytecode compiler (package compiler), the    *)
(* stack virtual machine it targets and the REPL loop (package repl).      *)
(*                                                                         *)
(* Go indices are kept 0-based; a Go slice s is a TLA+ sequence whose      *)
(* element s[i] is written s[i + 1].  Bytes are their numeric values.      *)
(***************************************************************************)
EXTENDS Integers, Sequences, FiniteSets, TLC

VARIABLES
    lex,          \* the Lexer struct: input, position, readPosition, ch
    tok,          \* the token returned by the last call of NextToken
    program,      \* the *ast.Program handed to Compile
    phase,        \* position of the compile-and-run pipeline
    err,          \* the error returned by Compile or by Run
    comp,         \* the Compiler struct
    machine,      \* the VM
    scanner,      \* REPL: the lines not yet read from the input
    replPc,       \* REPL: position inside Start's loop
    parsed,       \* REPL: the result of ParseProgram for the current line
    constants,    \* REPL: the constants slice kept across iterations
    globals,      \* REPL: the globals array kept across iterations
    symbolTable,  \* REPL: the symbol table kept across iterations
    out           \* REPL: what the current iteration wrote to out

lexVars == <<lex, tok>>
pipeVars == <<program, phase, err>>
engineVars == <<comp, machine>>
replVars == <<scanner, replPc, parsed, constants, globals, symbolTable, out>>
vars == <<lex, tok, program, phase, err, comp, machine,
          scanner, replPc, parsed, constants, globals, symbolTable, out>>

(***************************************************************************)
(* Bounds of the model.                                                    *)
(***************************************************************************)
\* longest input string handed to the lexer
MaxLen == 4
\* calls of NextToken explored once readPosition has passed the input's end
MaxEofCalls == 2
\* integer literals of the generated programs are 0..MaxInt
MaxInt == 1
\* most statements in a generated block
MaxBlockLen == 2
\* most statements in a generated program of several statements
MaxStmts == 2
\* most lines the REPL reads before its input ends
MaxLines == 3

(***************************************************************************)
(* package token                                                           *)
(***************************************************************************)
ILLEGAL == "ILLEGAL"
EOF == "EOF"
IDENT == "IDENT"
INT == "INT"
ASSIGN == "="
PLUS == "+"
COMMA == ","
SEMICOLON == ";"
LPAREN == "("
RPAREN == ")"
LBRACE == "{"
RBRACE == "}"
FUNCTION == "FUNCTION"
\* LET is a reserved word of TLA+
LET_TOK == "LET"
\* token kinds the lexer uses that the token package under src/ does not
\* declare; their values are those of the specification's token alphabet
MINUS == "-"
BANG == "!"
ASTERISK == "*"
SLASH == "/"
LT == "<"
GT == ">"
EQ == "=="
NOT_EQ == "!="

\* the bytes of "fn" and "let"
keywords == (<<102, 110>> :> FUNCTION) @@ (<<108, 101, 116>> :> LET_TOK)

LookupIdent(ident) ==
    IF ident \in DOMAIN keywords THEN keywords[ident] ELSE IDENT

(***************************************************************************)
(* package lexer                                                           *)
(***************************************************************************)
\* a plausible slip: digits accepted as identifier bytes
isLetterOrDigit(ch) ==
    \/ (97 <= ch /\ ch <= 122)
    \/ (65 <= ch /\ ch <= 90)
    \/ ch = 95
    \/ (48 <= ch /\ ch <= 57)

\* 'a' <= ch <= 'z' || 'A' <= ch <= 'Z' || ch == '_'
isLetter(ch) ==
    \/ (97 <= ch /\ ch <= 122)
    \/ (65 <= ch /\ ch <= 90)
    \/ ch = 95

\* '0' <= ch <= '9'
isDigit(ch) == 48 <= ch /\ ch <= 57

readChar(l) ==
    [l EXCEPT !.ch = IF l.readPosition >= Len(l.input)
                     THEN 0
                     ELSE l.input[l.readPosition + 1],
              !.position = l.readPosition,
              !.readPosition = l.readPosition + 1]

\* a plausible slip: the byte under examination instead of the next one
peekCurrent(l) ==
    IF l.position >= Len(l.input) THEN 0 ELSE l.input[l.position + 1]

peekChar(l) ==
    IF l.readPosition >= Len(l.input) THEN 0 ELSE l.input[l.readPosition + 1]

New(input) ==
    readChar([input |-> input, position |-> 0, readPosition |-> 0, ch |-> 0])

newToken(tokenType, ch) == [Type |-> tokenType, Literal |-> <<ch>>]

RECURSIVE skipWhitespace(_)
skipWhitespace(l) ==
    IF l.ch = 32 \/ l.ch = 9 \/ l.ch = 10 \/ l.ch = 13
    THEN skipWhitespace(readChar(l))
    ELSE l

\* the loop of readIdentifier: the lexer once l.ch is no letter
RECURSIVE identifierEnd(_)
identifierEnd(l) ==
    IF isLetter(l.ch) THEN identifierEnd(readChar(l)) ELSE l

\* the lexer after the loop, and l.input[position:l.position]
readIdentifier(l) ==
    LET e == identifierEnd(l)
    IN  [l |-> e, literal |-> SubSeq(l.input, l.position + 1, e.position)]

RECURSIVE numberEnd(_)
numberEnd(l) ==
    IF isDigit(l.ch) THEN numberEnd(readChar(l)) ELSE l

readNumber(l) ==
    LET e == numberEnd(l)
    IN  [l |-> e, literal |-> SubSeq(l.input, l.position + 1, e.position)]

\* the single-byte arms of NextToken's switch
singleByte ==
    (59 :> SEMICOLON) @@ (43 :> PLUS) @@ (45 :> MINUS) @@ (42 :> ASTERISK)
    @@ (47 :> SLASH) @@ (44 :> COMMA) @@ (40 :> LPAREN) @@ (41 :> RPAREN)
    @@ (60 :> LT) @@ (62 :> GT) @@ (123 :> LBRACE) @@ (125 :> RBRACE)

\* the arms for '=' and '!': one byte of lookahead
twoByte(l, single, double) ==
    IF peekChar(l) = 61
    THEN LET r == readChar(l)
         IN  [l |-> readChar(r),
              tok |-> [Type |-> double, Literal |-> <<l.ch>> \o <<r.ch>>]]
    ELSE [l |-> readChar(l), tok |-> newToken(single, l.ch)]

\* NextToken: the lexer it leaves and the token it returns
NextToken(l0) ==
    LET l == skipWhitespace(l0)
    IN  CASE l.ch = 61 -> twoByte(l, ASSIGN, EQ)
          [] l.ch = 33 -> twoByte(l, BANG, NOT_EQ)
          [] l.ch \in DOMAIN singleByte ->
                [l |-> readChar(l), tok |-> newToken(singleByte[l.ch], l.ch)]
          [] l.ch = 0 ->
                [l |-> readChar(l), tok |-> [Type |-> EOF, Literal |-> <<>>]]
          [] OTHER ->
                IF isLetter(l.ch)
                THEN LET r == readIdentifier(l)
                     IN  [l |-> r.l,
                          tok |-> [Type |-> LookupIdent(r.literal),
                                   Literal |-> r.literal]]
                ELSE IF isDigit(l.ch)
                THEN LET r == readNumber(l)
                     IN  [l |-> r.l,
                          tok |-> [Type |-> INT, Literal |-> r.literal]]
                ELSE [l |-> readChar(l), tok |-> newToken(ILLEGAL, l.ch)]

(***************************************************************************)
(* The lexer as a state machine: a lexer built by New over a bounded       *)
(* input, and repeated calls of NextToken.                                 *)
(***************************************************************************)
\* the input bytes explored: NUL, space, '!', '1', '=', '@', '_', 'f', 'n'
Alphabet == {0, 32, 33, 49, 61, 64, 95, 102, 110}

RECURSIVE SeqsUpTo(_, _)
SeqsUpTo(S, n) ==
    IF n = 0 THEN {<<>>}
    ELSE LET shorter == SeqsUpTo(S, n - 1)
         IN  shorter \cup {Append(s, x) : s \in shorter, x \in S}

Inputs == SeqsUpTo(Alphabet, MaxLen)

\* before the first call of NextToken no token has been returned
NoToken == [Type |-> "", Literal |-> <<>>]

\* the variables of the compiler, the machine and the REPL, unused here
LexRest ==
    /\ program = <<>>
    /\ phase = "idle"
    /\ err = "nil"
    /\ comp = <<>>
    /\ machine = <<>>
    /\ scanner = <<>>
    /\ replPc = "idle"
    /\ parsed = <<>>
    /\ constants = <<>>
    /\ globals = <<>>
    /\ symbolTable = <<>>
    /\ out = <<>>

LexInit ==
    /\ \E input \in Inputs : lex = New(input)
    /\ tok = NoToken
    /\ LexRest

LexNextToken ==
    /\ lex.readPosition <= Len(lex.input) + MaxEofCalls
    /\ LET r == NextToken(lex)
       IN  /\ lex' = r.l
           /\ tok' = r.tok
    /\ UNCHANGED <<pipeVars, engineVars, replVars>>

LexNext == LexNextToken

LexSpec == LexInit /\ [][LexNext]_vars

(***************************************************************************)
(* Claims about the lexer, checked under LexSpec.  They are stated over    *)
(* the input bytes themselves, not over the lexer's helpers.               *)
(***************************************************************************)
\* the byte at 0-based offset j of the input, -1 past its end
ByteAt(input, j) == IF j < Len(input) THEN input[j + 1] ELSE -1

IsBlankByte(b) == b \in {32, 9, 10, 13}
IsLetterByte(b) == b \in (97..122) \cup (65..90) \cup {95}
IsDigitByte(b) == b \in 48..57
IsPunctByte(b) == b \in {59, 61, 43, 45, 42, 47, 33, 44, 40, 41, 60, 62, 123, 125}

\* the least offset j >= start whose byte does not satisfy P (the input's
\* length when every byte from start on satisfies P)
RunEnd(input, start, P(_)) ==
    IF start >= Len(input) THEN start
    ELSE CHOOSE j \in start..Len(input) :
            /\ \A k \in start..(j - 1) : P(input[k + 1])
            /\ (j = Len(input) \/ ~P(input[j + 1]))

\* where the token returned by the next call of NextToken starts
TokStart == RunEnd(lex.input, lex.position, IsBlankByte)

\* C7 (as claimed): once NextToken has returned EOF every later call returns
\* EOF with an empty literal, and EOF is returned only when every input byte
\* has been consumed.
C7_EofIdempotent ==
    [][/\ tok.Type = EOF => (tok'.Type = EOF /\ tok'.Literal = <<>>)
       /\ tok'.Type = EOF => TokStart >= Len(lex.input)]_vars

\* C8 (as claimed): at a letter or '_', NextToken returns one token whose
\* literal is the maximal run of letters, digits and '_' starting there.
IsLetterOrDigitByte(b) == IsLetterByte(b) \/ IsDigitByte(b)

C8_IdentifierTakesDigits ==
    [][IsLetterByte(ByteAt(lex.input, TokStart)) =>
          LET e == RunEnd(lex.input, TokStart, IsLetterOrDigitByte)
          IN  /\ tok'.Literal = SubSeq(lex.input, TokStart + 1, e)
              /\ lex'.position = e]_vars

\* C8 (amended): at a letter or '_', NextToken returns one token whose
\* literal is the maximal run of letters and '_' starting there, of the kind
\* LookupIdent gives that literal; a digit ends the identifier.
C8_IdentifierLettersOnly ==
    [][IsLetterByte(ByteAt(lex.input, TokStart)) =>
          LET e == RunEnd(lex.input, TokStart, IsLetterByte)
          IN  /\ tok'.Literal = SubSeq(lex.input, TokStart + 1, e)
              /\ tok'.Type \in {IDENT, FUNCTION, LET_TOK}
              /\ (tok'.Type = FUNCTION) = (tok'.Literal = <<102, 110>>)
              /\ lex'.position = e]_vars

\* an identifier of two bytes or more has been returned and the byte that
\* follows it is the digit '1'
C8_Witness ==
    /\ tok.Type = IDENT
    /\ Len(tok.Literal) >= 2
    /\ lex.ch = 49
    /\ ByteAt(lex.input, lex.position) = 49

\* C9: at '=' or '!' followed by '=', NextToken consumes both bytes and
\* returns EQ or NOT_EQ with the two-byte literal; otherwise, the last byte
\* of the input included, it consumes one byte and returns ASSIGN or BANG.
C9_TwoCharOperators ==
    [][LET j == TokStart
           b == ByteAt(lex.input, j)
       IN  b \in {61, 33} =>
             IF ByteAt(lex.input, j + 1) = 61
             THEN /\ tok'.Type = (IF b = 61 THEN EQ ELSE NOT_EQ)
                  /\ tok'.Literal = <<b, 61>>
                  /\ lex'.position = j + 2
             ELSE /\ tok'.Type = (IF b = 61 THEN ASSIGN ELSE BANG)
                  /\ tok'.Literal = <<b>>
                  /\ lex'.position = j + 1]_vars

\* "===" has been lexed as EQ and then ASSIGN
C9_Witness ==
    /\ lex.input = <<61, 61, 61>>
    /\ lex.position = 3
    /\ tok = [Type |-> ASSIGN, Literal |-> <<61>>]

\* C10 (as claimed): a byte that starts no operator, punctuation, identifier
\* or number gives an ILLEGAL token whose literal is that byte, exactly that
\* byte is consumed and lexing goes on with the following byte.
C10_IllegalByte ==
    [][LET j == TokStart
           b == ByteAt(lex.input, j)
       IN  (b # -1 /\ ~IsPunctByte(b) /\ ~IsLetterByte(b) /\ ~IsDigitByte(b)) =>
             /\ tok' = [Type |-> ILLEGAL, Literal |-> <<b>>]
             /\ lex'.position = j + 1
             /\ lex'.ch = (IF j + 1 < Len(lex.input) THEN lex.input[j + 2] ELSE 0)]_vars

(***************************************************************************)
(* package code: the opcodes and their encoding.  The package is not part  *)
(* of the sources at hand; opcodes are numbered in the order of the        *)
(* specification's opcode table and operands are big-endian.               *)
(***************************************************************************)
OpConstant == 0
OpPop == 1
OpAdd == 2
OpSub == 3
OpMul == 4
OpDiv == 5
OpTrue == 6
OpFalse == 7
OpNull == 8
OpEqual == 9
OpNotEqual == 10
OpGreaterThan == 11
OpMinus == 12
OpBang == 13
OpJumpNotTruthy == 14
OpJump == 15
OpSetGlobal == 16
OpGetGlobal == 17

\* the operand widths, in bytes, of each opcode
OperandWidths(op) ==
    IF op \in {OpConstant, OpJumpNotTruthy, OpJump, OpSetGlobal, OpGetGlobal}
    THEN <<2>> ELSE <<>>

\* Make(op, operands...): the opcode byte, then each operand in its width
Make(op, operands) ==
    IF OperandWidths(op) = <<2>> /\ Len(operands) >= 1
    THEN <<op, (operands[1] \div 256) % 256, operands[1] % 256>>
    ELSE <<op>>

\* the big-endian u16 at 0-based offset pos of ins
ReadUint16(ins, pos) == ins[pos + 1] * 256 + ins[pos + 2]

(***************************************************************************)
(* package ast: the nodes, as records tagged by their Go type.             *)
(***************************************************************************)
\* a nil *ast.BlockStatement
NilNode == [kind |-> "nil"]

Program(stmts) == [kind |-> "Program", Statements |-> stmts]
ExpressionStatement(e) == [kind |-> "ExpressionStatement", Expression |-> e]
BlockStatement(stmts) == [kind |-> "BlockStatement", Statements |-> stmts]
IntegerLiteral(v) == [kind |-> "IntegerLiteral", Value |-> v]
\* node.Value of an *ast.Boolean is the field BoolValue and that of an
\* *ast.Identifier the field Name: a Value field holds integers only
Boolean(v) == [kind |-> "Boolean", BoolValue |-> v]
PrefixExpression(op, right) ==
    [kind |-> "PrefixExpression", Operator |-> op, Right |-> right]
InfixExpression(left, op, right) ==
    [kind |-> "InfixExpression", Left |-> left, Operator |-> op, Right |-> right]
IfExpression(cond, cons, alt) ==
    [kind |-> "IfExpression", Condition |-> cond, Consequence |-> cons,
     Alternative |-> alt]
Identifier(name) == [kind |-> "Identifier", Name |-> name]
LetStatement(name, value) ==
    [kind |-> "LetStatement", Name |-> Identifier(name), Value |-> value]
ReturnStatenment(value) == [kind |-> "ReturnStatenment", ReturnValue |-> value]

(***************************************************************************)
(* package object                                                          *)
(***************************************************************************)
\* the objects, tagged by their Go type
Integer(v) == [obj |-> "Integer", Value |-> v]
BooleanObj(v) == [obj |-> "Boolean", BoolValue |-> v]
Null == [obj |-> "Null"]
\* a nil object.Object: a slot never written
NilObj == [obj |-> "nil"]

\* Inspect(): "%d" of an Integer, "%t" of a Boolean, "null"
Inspect(o) ==
    CASE o.obj = "Integer" -> <<"%d", o.Value>>
      [] o.obj = "Boolean" -> <<"%t", o.BoolValue>>
      [] o.obj = "Null" -> <<"null">>

(***************************************************************************)
(* package compiler                                                        *)
(***************************************************************************)
\* a nil error
NoErr == "nil"

EmittedInstruction(op, pos) == [Opcode |-> op, Position |-> pos]

\* compiler.New(): empty instructions and constants, zero-valued
\* lastInstruction and previousInstruction
NewCompiler ==
    [instructions |-> <<>>,
     constants |-> <<>>,
     lastInstruction |-> EmittedInstruction(0, 0),
     previousInstruction |-> EmittedInstruction(0, 0)]

\* addConstant: the compiler and the index of the new constant
addConstant(c, obj) ==
    [c |-> [c EXCEPT !.constants = Append(c.constants, obj)],
     index |-> Len(c.constants)]

\* addInstructions: the compiler and the position of the new instruction
addInstructions(c, ins) ==
    [c |-> [c EXCEPT !.instructions = c.instructions \o ins],
     pos |-> Len(c.instructions)]

setLastInstruction(c, op, pos) ==
    [c EXCEPT !.previousInstruction = c.lastInstruction,
              !.lastInstruction = EmittedInstruction(op, pos)]

\* emit: the compiler and the position of the emitted instruction
emit(c, op, operands) ==
    LET a == addInstructions(c, Make(op, operands))
    IN  [c |-> setLastInstruction(a.c, op, a.pos), pos |-> a.pos]

\* a plausible slip: the check that keeps an if-expression's value is lost
lastInstructionIsNeverPop(c) == FALSE

\* a plausible slip: the last instruction is removed without a look at it
lastInstructionIsAlwaysPop(c) == TRUE

lastInstructionIsPop(c) == c.lastInstruction.Opcode = OpPop

removeLastPop(c) ==
    [c EXCEPT !.instructions = SubSeq(c.instructions, 1, c.lastInstruction.Position),
              !.lastInstruction = c.previousInstruction]

replaceInstruction(c, pos, newInstruction) ==
    [c EXCEPT !.instructions =
        [i \in 1..Len(c.instructions) |->
            IF i - 1 >= pos /\ i - 1 < pos + Len(newInstruction)
            THEN newInstruction[i - pos]
            ELSE c.instructions[i]]]

\* a plausible slip: the placeholder operand is never patched
changeOperandNot(c, opPos, operand) == c

changeOperand(c, opPos, operand) ==
    replaceInstruction(c, opPos, Make(c.instructions[opPos + 1], <<operand>>))

\* the operators with an opcode of their own
InfixOpcode ==
    ("+" :> OpAdd) @@ ("-" :> OpSub) @@ ("*" :> OpMul) @@ ("/" :> OpDiv)
    @@ (">" :> OpGreaterThan) @@ ("==" :> OpEqual) @@ ("!=" :> OpNotEqual)

PrefixOpcode == ("!" :> OpBang) @@ ("-" :> OpMinus)

Ok(c) == [c |-> c, err |-> NoErr]
Fail(c, msg) == [c |-> c, err |-> msg]

\* Compile: the compiler as Compile leaves it and the error it returns
RECURSIVE Compile(_, _)
RECURSIVE compileStatements(_, _, _)

\* the loops over node.Statements of *ast.Program and *ast.BlockStatement
compileStatements(c, stmts, i) ==
    IF i > Len(stmts) THEN Ok(c)
    ELSE LET r == Compile(c, stmts[i])
         IN  IF r.err # NoErr THEN r ELSE compileStatements(r.c, stmts, i + 1)

\* a plausible slip: the operands of < are compiled in their order, like
\* those of every other operator
compileInfixInOrder(c, node) ==
    LET l == Compile(c, node.Left)
    IN  IF l.err # NoErr THEN l
        ELSE LET r == Compile(l.c, node.Right)
             IN  IF r.err # NoErr THEN r
                 ELSE IF node.Operator = "<"
                 THEN Ok(emit(r.c, OpGreaterThan, <<>>).c)
                 ELSE IF node.Operator \in DOMAIN InfixOpcode
                 THEN Ok(emit(r.c, InfixOpcode[node.Operator], <<>>).c)
                 ELSE Fail(r.c, "unknown operator")

compileInfix(c, node) ==
    IF node.Operator = "<"
    THEN LET r == Compile(c, node.Right)
         IN  IF r.err # NoErr THEN r
             ELSE LET l == Compile(r.c, node.Left)
                  IN  IF l.err # NoErr THEN l
                      ELSE Ok(emit(l.c, OpGreaterThan, <<>>).c)
    ELSE LET l == Compile(c, node.Left)
         IN  IF l.err # NoErr THEN l
             ELSE LET r == Compile(l.c, node.Right)
                  IN  IF r.err # NoErr THEN r
                      ELSE IF node.Operator \in DOMAIN InfixOpcode
                      THEN Ok(emit(r.c, InfixOpcode[node.Operator], <<>>).c)
                      ELSE Fail(r.c, "unknown operator")

compilePrefix(c, node) ==
    LET r == Compile(c, node.Right)
    IN  IF r.err # NoErr THEN r
        ELSE IF node.Operator \in DOMAIN PrefixOpcode
        THEN Ok(emit(r.c, PrefixOpcode[node.Operator], <<>>).c)
        ELSE Fail(r.c, "unknown operator")

\* the part of the IfExpression case after the consequence is compiled
compileAlternative(c0, node, jumpNotTruthyPos) ==
    LET c1 == IF lastInstructionIsPop(c0) THEN removeLastPop(c0) ELSE c0
        j == emit(c1, OpJump, <<9999>>)
        jumpPos == j.pos
        afterConsequencePos == Len(j.c.instructions)
        c2 == changeOperand(j.c, jumpNotTruthyPos, afterConsequencePos)
    IN  IF node.Alternative = NilNode
        THEN LET c3 == emit(c2, OpNull, <<>>).c
             IN  Ok(changeOperand(c3, jumpPos, Len(c3.instructions)))
        ELSE LET a == Compile(c2, node.Alternative)
             IN  IF a.err # NoErr THEN a
                 ELSE LET c3 == IF lastInstructionIsPop(a.c)
                                THEN removeLastPop(a.c) ELSE a.c
                      IN  Ok(changeOperand(c3, jumpPos, Len(c3.instructions)))

compileIf(c, node) ==
    LET cond == Compile(c, node.Condition)
    IN  IF cond.err # NoErr THEN cond
        ELSE LET jnt == emit(cond.c, OpJumpNotTruthy, <<9999>>)
                 cons == Compile(jnt.c, node.Consequence)
             IN  IF cons.err # NoErr THEN cons
                 ELSE compileAlternative(cons.c, node, jnt.pos)

Compile(c, node) ==
    CASE node.kind = "Program" -> compileStatements(c, node.Statements, 1)
      [] node.kind = "ExpressionStatement" ->
            LET r == Compile(c, node.Expression)
            IN  IF r.err # NoErr THEN r ELSE Ok(emit(r.c, OpPop, <<>>).c)
      [] node.kind = "BlockStatement" -> compileStatements(c, node.Statements, 1)
      [] node.kind = "InfixExpression" -> compileInfix(c, node)
      [] node.kind = "PrefixExpression" -> compilePrefix(c, node)
      [] node.kind = "IfExpression" -> compileIf(c, node)
      [] node.kind = "IntegerLiteral" ->
            LET k == addConstant(c, Integer(node.Value))
            IN  Ok(emit(k.c, OpConstant, <<k.index>>).c)
      [] node.kind = "Boolean" ->
            IF node.BoolValue THEN Ok(emit(c, OpTrue, <<>>).c)
            ELSE Ok(emit(c, OpFalse, <<>>).c)
      \* the switch has no default: any other node is skipped, without error
      [] OTHER -> Ok(c)

Bytecode(c) == [Instructions |-> c.instructions, Constants |-> c.constants]

(***************************************************************************)
(* package vm.  Of the VM only frame.go is among the sources at hand; the  *)
(* machine below is the stack machine of the specification (section 4.4):  *)
(* the opcodes the compiler above emits, and the globals opcodes of the    *)
(* REPL.  A pop of the empty stack, an index outside the constants and a   *)
(* division by zero stop the machine (in Go they panic).                   *)
(***************************************************************************)
StackSize == 2048

True == BooleanObj(TRUE)
False == BooleanObj(FALSE)

\* vm.New(bytecode), with the globals store of NewWithGlobalsStore
NewWithGlobalsStore(bytecode, store) ==
    [instructions |-> bytecode.Instructions,
     constants |-> bytecode.Constants,
     stack |-> <<>>,
     sp |-> 0,
     ip |-> -1,
     globals |-> store,
     status |-> "running",
     err |-> NoErr]

NewVM(bytecode) == NewWithGlobalsStore(bytecode, <<>>)

\* the value in stack slot i (0-based), nil when the slot was never written
Slot(vm, i) == IF i < Len(vm.stack) THEN vm.stack[i + 1] ELSE NilObj

\* stack[sp]: the value popped last
LastPoppedStackElem(vm) == Slot(vm, vm.sp)

Stop(vm, status, msg) == [vm EXCEPT !.status = status, !.err = msg]

push(vm, o) ==
    IF vm.sp >= StackSize THEN Stop(vm, "error", "stack overflow")
    ELSE [vm EXCEPT !.stack = IF vm.sp < Len(vm.stack)
                              THEN [vm.stack EXCEPT ![vm.sp + 1] = o]
                              ELSE Append(vm.stack, o),
                    !.sp = vm.sp + 1]

\* the machine after n pops
drop(vm, n) == [vm EXCEPT !.sp = vm.sp - n]

\* Go's integer division truncates toward zero
Quotient(a, b) ==
    LET q == (IF a < 0 THEN -a ELSE a) \div (IF b < 0 THEN -b ELSE b)
    IN  IF (a < 0) = (b < 0) THEN q ELSE -q

isTruthy(o) ==
    CASE o.obj = "Boolean" -> o.BoolValue
      [] o.obj = "Null" -> FALSE
      [] OTHER -> TRUE

executeBinaryOperation(vm, op) ==
    LET right == Slot(vm, vm.sp - 1)
        left == Slot(vm, vm.sp - 2)
        v == drop(vm, 2)
    IN  IF left.obj = "Integer" /\ right.obj = "Integer"
        THEN CASE op = OpAdd -> push(v, Integer(left.Value + right.Value))
               [] op = OpSub -> push(v, Integer(left.Value - right.Value))
               [] op = OpMul -> push(v, Integer(left.Value * right.Value))
               [] op = OpDiv ->
                    IF right.Value = 0
                    THEN Stop(v, "panic", "integer divide by zero")
                    ELSE push(v, Integer(Quotient(left.Value, right.Value)))
        ELSE Stop(v, "error", "unsupported types for binary operation")

\* right == left on objects: identity, which for the singletons True, False
\* and Null is equality of their values
same(a, b) ==
    /\ a.obj = b.obj
    /\ a.obj = "Boolean" => a.BoolValue = b.BoolValue
    /\ a.obj = "Integer" => a.Value = b.Value

executeComparison(vm, op) ==
    LET right == Slot(vm, vm.sp - 1)
        left == Slot(vm, vm.sp - 2)
        v == drop(vm, 2)
    IN  IF left.obj = "Integer" /\ right.obj = "Integer"
        THEN CASE op = OpEqual -> push(v, BooleanObj(left.Value = right.Value))
               [] op = OpNotEqual -> push(v, BooleanObj(left.Value # right.Value))
               [] op = OpGreaterThan -> push(v, BooleanObj(left.Value > right.Value))
        ELSE CASE op = OpEqual -> push(v, BooleanObj(same(left, right)))
               [] op = OpNotEqual -> push(v, BooleanObj(~same(left, right)))
               [] op = OpGreaterThan -> Stop(v, "error", "unknown operator")

executeBangOperator(vm) ==
    LET operand == Slot(vm, vm.sp - 1)
    IN  push(drop(vm, 1), BooleanObj(~isTruthy(operand)))

executeMinusOperator(vm) ==
    LET operand == Slot(vm, vm.sp - 1)
    IN  IF operand.obj = "Integer"
        THEN push(drop(vm, 1), Integer(-operand.Value))
        ELSE Stop(drop(vm, 1), "error", "unsupported type for negation")

\* The globals array holds GlobalSize slots, nil until set; the model keeps
\* the slots up to the last one set.
getGlobal(store, idx) == IF idx < Len(store) THEN store[idx + 1] ELSE NilObj

setGlobal(store, idx, o) ==
    [i \in 1..(IF idx < Len(store) THEN Len(store) ELSE idx + 1) |->
        IF i = idx + 1 THEN o
        ELSE IF i <= Len(store) THEN store[i] ELSE NilObj]

\* the operand stack entries an opcode pops
Pops(op) ==
    CASE op \in {OpAdd, OpSub, OpMul, OpDiv, OpEqual, OpNotEqual, OpGreaterThan} -> 2
      [] op \in {OpPop, OpMinus, OpBang, OpJumpNotTruthy, OpSetGlobal} -> 1
      [] OTHER -> 0

\* one turn of Run's loop: advance ip, decode, execute
Step(vm) ==
    LET ip == vm.ip + 1
        ins == vm.instructions
        op == ins[ip + 1]
        wide == OperandWidths(op) = <<2>>
        at == [vm EXCEPT !.ip = IF wide THEN ip + 2 ELSE ip]
    IN  IF op \notin OpConstant..OpGetGlobal
        THEN Stop(at, "panic", "bad opcode")
        ELSE IF wide /\ ip + 2 >= Len(ins)
        THEN Stop(at, "panic", "operand out of range")
        ELSE IF vm.sp < Pops(op)
        THEN Stop(at, "underflow", "pop of the empty stack")
        ELSE CASE op = OpConstant ->
                    LET idx == ReadUint16(ins, ip + 1)
                    IN  IF idx >= Len(vm.constants)
                        THEN Stop(at, "panic", "constant out of range")
                        ELSE push(at, vm.constants[idx + 1])
               [] op = OpPop -> drop(at, 1)
               [] op \in {OpAdd, OpSub, OpMul, OpDiv} ->
                    executeBinaryOperation(at, op)
               [] op = OpTrue -> push(at, True)
               [] op = OpFalse -> push(at, False)
               [] op = OpNull -> push(at, Null)
               [] op \in {OpEqual, OpNotEqual, OpGreaterThan} ->
                    executeComparison(at, op)
               [] op = OpMinus -> executeMinusOperator(at)
               [] op = OpBang -> executeBangOperator(at)
               [] op = OpJump ->
                    [at EXCEPT !.ip = ReadUint16(ins, ip + 1) - 1]
               [] op = OpJumpNotTruthy ->
                    LET condition == Slot(vm, vm.sp - 1)
                        v == drop(at, 1)
                    IN  IF isTruthy(condition) THEN v
                        ELSE [v EXCEPT !.ip = ReadUint16(ins, ip + 1) - 1]
               [] op = OpSetGlobal ->
                    [drop(at, 1) EXCEPT !.globals =
                        setGlobal(vm.globals, ReadUint16(ins, ip + 1),
                                  Slot(vm, vm.sp - 1))]
               [] op = OpGetGlobal ->
                    push(at, getGlobal(vm.globals, ReadUint16(ins, ip + 1)))

\* Run's loop is over: the instructions are exhausted or the machine stopped
Halted(vm) ==
    vm.status # "running" \/ vm.ip >= Len(vm.instructions) - 1

\* Run: the machine when the loop is over
RECURSIVE Run(_)
Run(vm) == IF Halted(vm) THEN vm ELSE Run(Step(vm))

(***************************************************************************)
(* The programs compiled and run: every AST below is one the parser can    *)
(* build from source text, except those of BadPrograms, whose operators    *)
(* no source text gives.                                                   *)
(***************************************************************************)
IntLits == {IntegerLiteral(v) : v \in 0..MaxInt}
Atoms == IntLits \cup {Boolean(TRUE), Boolean(FALSE)}
PrefixOperators == {"!", "-"}
InfixOperators == {"+", "-", "*", "/", "<", ">", "==", "!="}

\* expressions without if: atoms, and one operator over atoms
SimpleExprs ==
    Atoms
    \cup {PrefixExpression(op, a) : op \in PrefixOperators, a \in Atoms}
    \cup {InfixExpression(a, op, b) : a \in Atoms, op \in InfixOperators, b \in Atoms}

StmtsOver(E) == {ExpressionStatement(e) : e \in E}
BlocksOver(E, n) == {BlockStatement(ss) : ss \in SeqsUpTo(StmtsOver(E), n)}

\* conditions: every atom (0 among them), comparisons, negations
Conditions ==
    Atoms
    \cup {InfixExpression(a, op, b) : a \in IntLits, op \in {"<", "=="}, b \in IntLits}
    \cup {PrefixExpression("!", a) : a \in Atoms}

\* if-expressions whose branches are blocks of integer literals, the empty
\* block among them, with and without else
FlatIfs ==
    {IfExpression(c, cons, alt) :
        c \in Conditions,
        cons \in BlocksOver(IntLits, MaxBlockLen),
        alt \in BlocksOver(IntLits, MaxBlockLen) \cup {NilNode}}

\* if-expressions whose branches hold booleans or a failing operation
MixedIfs ==
    {IfExpression(c, cons, alt) :
        c \in {Boolean(TRUE), Boolean(FALSE), IntegerLiteral(0)},
        cons \in BlocksOver({Boolean(TRUE), PrefixExpression("-", Boolean(TRUE))}, 1),
        alt \in BlocksOver({Boolean(FALSE), IntegerLiteral(1)}, 1) \cup {NilNode}}

TinyBlocks == BlocksOver({IntegerLiteral(0)}, 1)

InnerIfs ==
    {IfExpression(c, cons, alt) :
        c \in {Boolean(TRUE), Boolean(FALSE)},
        cons \in TinyBlocks,
        alt \in TinyBlocks \cup {NilNode}}

\* blocks that end in an if-expression, alone or after another statement
NestingBlocks ==
    TinyBlocks
    \cup {BlockStatement(<<ExpressionStatement(i)>>) : i \in InnerIfs}
    \cup {BlockStatement(<<ExpressionStatement(IntegerLiteral(1)),
                           ExpressionStatement(i)>>) : i \in InnerIfs}

\* an if-expression inside a branch, as a condition, and as an operand
NestedIfs ==
    {IfExpression(c, cons, alt) :
        c \in {Boolean(TRUE), Boolean(FALSE)},
        cons \in NestingBlocks,
        alt \in NestingBlocks \cup {NilNode}}
    \cup {IfExpression(i, cons, alt) :
            i \in InnerIfs, cons \in TinyBlocks, alt \in TinyBlocks \cup {NilNode}}
    \cup {InfixExpression(i, "+", IntegerLiteral(1)) : i \in InnerIfs}
    \cup {InfixExpression(IntegerLiteral(1), "<", i) : i \in InnerIfs}
    \cup {PrefixExpression(op, i) : op \in PrefixOperators, i \in InnerIfs}

\* if (false) { 10 }   and   if (1 < 2) { 10 } else { 20 }
Scenario3a ==
    IfExpression(Boolean(FALSE),
                 BlockStatement(<<ExpressionStatement(IntegerLiteral(10))>>),
                 NilNode)
Scenario3b ==
    IfExpression(InfixExpression(IntegerLiteral(1), "<", IntegerLiteral(2)),
                 BlockStatement(<<ExpressionStatement(IntegerLiteral(10))>>),
                 BlockStatement(<<ExpressionStatement(IntegerLiteral(20))>>))

\* statements of the programs of several statements
SequencedExprs ==
    {IntegerLiteral(1), Boolean(TRUE),
     InfixExpression(IntegerLiteral(1), "<", IntegerLiteral(0)),
     IfExpression(Boolean(FALSE), BlockStatement(<<>>), NilNode),
     IfExpression(Boolean(TRUE),
                  BlockStatement(<<ExpressionStatement(IntegerLiteral(0))>>),
                  BlockStatement(<<ExpressionStatement(IntegerLiteral(1))>>))}

\* statements of the blocks below: an integer, an identifier, a let
\* statement, and an if-expression with identifiers for branches
ShapedStmts ==
    {ExpressionStatement(IntegerLiteral(1)),
     ExpressionStatement(Identifier("a")),
     LetStatement("a", IntegerLiteral(1)),
     ExpressionStatement(
        IfExpression(Boolean(TRUE),
                     BlockStatement(<<ExpressionStatement(Identifier("a"))>>),
                     BlockStatement(<<ExpressionStatement(Identifier("b"))>>)))}

ShapedBlocks == {BlockStatement(ss) : ss \in SeqsUpTo(ShapedStmts, MaxBlockLen)}

\* if-expressions as the parser builds them from identifiers, let
\* statements and nested if-expressions, none of which the compiler lowers
ShapedIfs ==
    {IfExpression(Boolean(TRUE), cons, alt) :
        cons \in ShapedBlocks, alt \in ShapedBlocks \cup {NilNode}}

\* programs with an operator outside the supported set, and programs with
\* statements the compiler has no case for
BadPrograms ==
    {Program(<<ExpressionStatement(e)>>) :
        e \in {PrefixExpression("?", IntegerLiteral(1)),
               InfixExpression(IntegerLiteral(0), "&", IntegerLiteral(1)),
               InfixExpression(PrefixExpression("?", IntegerLiteral(1)), "<",
                               IntegerLiteral(0)),
               IfExpression(Boolean(TRUE),
                            BlockStatement(<<ExpressionStatement(
                                PrefixExpression("?", IntegerLiteral(1)))>>),
                            NilNode),
               Identifier("a")}}
    \cup {Program(<<LetStatement("a", IntegerLiteral(1))>>),
          Program(<<ReturnStatenment(IntegerLiteral(1))>>),
          Program(<<ExpressionStatement(IntegerLiteral(0)),
                    LetStatement("a", IntegerLiteral(1))>>)}

Programs ==
    {Program(<<ExpressionStatement(e)>>) :
        e \in SimpleExprs \cup FlatIfs \cup MixedIfs \cup NestedIfs
              \cup {Scenario3a, Scenario3b} \cup ShapedIfs}
    \cup {Program(ss) : ss \in SeqsUpTo(StmtsOver(SequencedExprs), MaxStmts)}
    \cup BadPrograms

(***************************************************************************)
(* Compile and run as a state machine: a program is compiled by a new      *)
(* compiler, a new machine is given the bytecode, and Run's loop turns     *)
(* until it is over.                                                       *)
(***************************************************************************)
LexIdle ==
    /\ lex = <<>>
    /\ tok = NoToken

ReplIdle ==
    /\ scanner = <<>>
    /\ replPc = "idle"
    /\ parsed = <<>>
    /\ constants = <<>>
    /\ globals = <<>>
    /\ symbolTable = <<>>
    /\ out = <<>>

Init ==
    /\ program \in Programs
    /\ phase = "parsed"
    /\ err = NoErr
    /\ comp = NewCompiler
    /\ machine = <<>>
    /\ LexIdle
    /\ ReplIdle

\* comp.Compile(program)
CompileProgram ==
    /\ phase = "parsed"
    /\ LET r == Compile(comp, program)
       IN  /\ comp' = r.c
           /\ err' = r.err
           /\ phase' = IF r.err = NoErr THEN "compiled" ELSE "compile failed"
    /\ UNCHANGED <<program, machine, lexVars, replVars>>

\* vm.New(comp.Bytecode())
MachineNew ==
    /\ phase = "compiled"
    /\ machine' = NewVM(Bytecode(comp))
    /\ phase' = "running"
    /\ UNCHANGED <<program, err, comp, lexVars, replVars>>

\* one turn of the loop of machine.Run()
MachineStep ==
    /\ phase = "running"
    /\ ~Halted(machine)
    /\ machine' = Step(machine)
    /\ UNCHANGED <<program, phase, err, comp, lexVars, replVars>>

\* machine.Run() returns
MachineReturn ==
    /\ phase = "running"
    /\ Halted(machine)
    /\ err' = machine.err
    /\ phase' = "ran"
    /\ UNCHANGED <<program, comp, machine, lexVars, replVars>>

Next ==
    \/ CompileProgram
    \/ MachineNew
    \/ MachineStep
    \/ MachineReturn

Spec == Init /\ [][Next]_vars

(***************************************************************************)
(* Claims about the compiler and the machine, checked under Spec.          *)
(***************************************************************************)
\* the node kinds and operators the compiler has a case for
RECURSIVE Supported(_)
Supported(node) ==
    CASE node.kind \in {"Program", "BlockStatement"} ->
            \A i \in 1..Len(node.Statements) :
                /\ node.Statements[i].kind = "ExpressionStatement"
                /\ Supported(node.Statements[i].Expression)
      [] node.kind \in {"IntegerLiteral", "Boolean"} -> TRUE
      [] node.kind = "PrefixExpression" ->
            node.Operator \in {"!", "-"} /\ Supported(node.Right)
      [] node.kind = "InfixExpression" ->
            /\ node.Operator \in {"+", "-", "*", "/", "<", ">", "==", "!="}
            /\ Supported(node.Left)
            /\ Supported(node.Right)
      [] node.kind = "IfExpression" ->
            /\ Supported(node.Condition)
            /\ Supported(node.Consequence)
            /\ node.Alternative # NilNode => Supported(node.Alternative)
      [] OTHER -> FALSE

\* Compile has returned without error
Compiled == phase \in {"compiled", "running", "ran"}

\* the offsets at which the code of a statement of the program starts, and
\* the offset at which the code of the last one ends
StatementBoundaries ==
    {Len(Compile(NewCompiler,
                 Program(SubSeq(program.Statements, 1, k))).c.instructions) :
        k \in 0..Len(program.Statements)}

\* the machine is about to execute the first instruction of a statement, or
\* has executed the last instruction of the program
AtStatementBoundary ==
    /\ phase \in {"running", "ran"}
    /\ machine.status = "running"
    /\ machine.ip + 1 \in StatementBoundaries

\* C1 (as claimed): executing the bytecode of a program of supported nodes,
\* empty blocks and if without else included, never pops the empty operand
\* stack, and between statements the stack is as deep as before the first.
C1_StackDiscipline ==
    (Supported(program) /\ phase \in {"running", "ran"}) =>
        /\ machine.status # "underflow"
        /\ AtStatementBoundary => machine.sp = 0

\* no block of the node is empty
RECURSIVE NoEmptyBlock(_)
NoEmptyBlock(node) ==
    CASE node.kind \in {"Program", "BlockStatement"} ->
            /\ node.kind = "BlockStatement" => node.Statements # <<>>
            /\ \A i \in 1..Len(node.Statements) :
                    NoEmptyBlock(node.Statements[i].Expression)
      [] node.kind = "PrefixExpression" -> NoEmptyBlock(node.Right)
      [] node.kind = "InfixExpression" ->
            NoEmptyBlock(node.Left) /\ NoEmptyBlock(node.Right)
      [] node.kind = "IfExpression" ->
            /\ NoEmptyBlock(node.Condition)
            /\ NoEmptyBlock(node.Consequence)
            /\ node.Alternative # NilNode => NoEmptyBlock(node.Alternative)
      [] OTHER -> TRUE

\* C1, for programs without an empty block: the stack discipline holds
C1_StackDisciplineNoEmptyBlock ==
    (Supported(program) /\ NoEmptyBlock(program) /\ phase \in {"running", "ran"}) =>
        /\ machine.status # "underflow"
        /\ AtStatementBoundary => machine.sp = 0

\* the offsets at which the instructions of ins start, decoded from p on
RECURSIVE StartsFrom(_, _)
StartsFrom(ins, p) ==
    IF p >= Len(ins) THEN {}
    ELSE {p} \cup StartsFrom(ins, p + 1 + (IF OperandWidths(ins[p + 1]) = <<2>>
                                           THEN 2 ELSE 0))

Starts(ins) == StartsFrom(ins, 0)
JumpsAt(ins, op) == {p \in Starts(ins) : ins[p + 1] = op}
Target(ins, p) == ins[p + 2] * 256 + ins[p + 3]

\* the bytes of a 16-bit operand
U16(n) == <<(n \div 256) % 256, n % 256>>

\* The code of an expression laid out directly: base is the offset at which
\* it starts and k the number of constants before it.  The operand of an
\* OpJumpNotTruthy is by construction the offset after the OpJump that closes
\* the consequence, and that of an OpJump the offset after the alternative
\* (after the OpNull when there is none).
RECURSIVE ExprLayout(_, _, _)
RECURSIVE BlockLayout(_, _, _, _)

\* the statements i.. of a block whose value is kept: an OpPop after each
\* statement but the last
BlockLayout(stmts, i, base, k) ==
    IF i > Len(stmts) THEN [code |-> <<>>, k |-> k]
    ELSE LET e == ExprLayout(stmts[i].Expression, base, k)
             pop == IF i < Len(stmts) THEN <<OpPop>> ELSE <<>>
             rest == BlockLayout(stmts, i + 1, base + Len(e.code) + Len(pop), e.k)
         IN  [code |-> e.code \o pop \o rest.code, k |-> rest.k]

ExprLayout(node, base, k) ==
    CASE node.kind = "IntegerLiteral" ->
            [code |-> <<OpConstant>> \o U16(k), k |-> k + 1]
      [] node.kind = "Boolean" ->
            [code |-> IF node.BoolValue THEN <<OpTrue>> ELSE <<OpFalse>>, k |-> k]
      [] node.kind = "PrefixExpression" ->
            LET r == ExprLayout(node.Right, base, k)
            IN  [code |-> r.code \o <<IF node.Operator = "!" THEN OpBang ELSE OpMinus>>,
                 k |-> r.k]
      [] node.kind = "InfixExpression" ->
            LET first == IF node.Operator = "<" THEN node.Right ELSE node.Left
                second == IF node.Operator = "<" THEN node.Left ELSE node.Right
                a == ExprLayout(first, base, k)
                b == ExprLayout(second, base + Len(a.code), a.k)
                op == CASE node.Operator = "+" -> OpAdd
                        [] node.Operator = "-" -> OpSub
                        [] node.Operator = "*" -> OpMul
                        [] node.Operator = "/" -> OpDiv
                        [] node.Operator \in {"<", ">"} -> OpGreaterThan
                        [] node.Operator = "==" -> OpEqual
                        [] node.Operator = "!=" -> OpNotEqual
            IN  [code |-> a.code \o b.code \o <<op>>, k |-> b.k]
      [] node.kind = "IfExpression" ->
            LET cond == ExprLayout(node.Condition, base, k)
                consAt == base + Len(cond.code) + 3
                cons == BlockLayout(node.Consequence.Statements, 1, consAt, cond.k)
                altAt == consAt + Len(cons.code) + 3
                alt == IF node.Alternative = NilNode
                       THEN [code |-> <<OpNull>>, k |-> cons.k]
                       ELSE BlockLayout(node.Alternative.Statements, 1, altAt, cons.k)
            IN  [code |-> cond.code
                          \o <<OpJumpNotTruthy>> \o U16(altAt)
                          \o cons.code
                          \o <<OpJump>> \o U16(altAt + Len(alt.code))
                          \o alt.code,
                 k |-> alt.k]

\* the statements i.. of a program: an OpPop after every statement
RECURSIVE ProgramLayout(_, _, _, _)
ProgramLayout(stmts, i, base, k) ==
    IF i > Len(stmts) THEN <<>>
    ELSE LET e == ExprLayout(stmts[i].Expression, base, k)
         IN  e.code \o <<OpPop>>
             \o ProgramLayout(stmts, i + 1, base + Len(e.code) + 1, e.k)

\* C2: after Compile returns without error no jump carries the placeholder
\* 9999, every jump target is the start of an instruction inside the
\* instruction buffer, every OpJumpNotTruthy targets the offset right after
\* an OpJump behind it, no two the same one, every OpJump jumps forward (past
\* the OpNull that follows it, if one does), and for a program of supported
\* nodes the buffer is the direct layout, in which each OpJumpNotTruthy
\* targets the offset after the OpJump closing its consequence and each
\* OpJump the offset after its alternative.
C2_JumpPatching ==
    Compiled =>
        LET ins == comp.instructions
            jnts == JumpsAt(ins, OpJumpNotTruthy)
            jumps == JumpsAt(ins, OpJump)
        IN  /\ \A p \in Starts(ins) :
                    p + (IF OperandWidths(ins[p + 1]) = <<2>> THEN 2 ELSE 0) < Len(ins)
            /\ \A p \in jnts \cup jumps :
                    /\ Target(ins, p) # 9999
                    /\ Target(ins, p) \in Starts(ins)
            /\ \A p \in jnts :
                    /\ Target(ins, p) - 3 \in jumps
                    /\ Target(ins, p) - 3 > p
            /\ \A p, q \in jnts : Target(ins, p) = Target(ins, q) => p = q
            /\ Cardinality(jnts) = Cardinality(jumps)
            /\ \A q \in jumps :
                    /\ Target(ins, q) >= q + 3
                    /\ ins[q + 4] = OpNull => Target(ins, q) = q + 4
            /\ Supported(program) =>
                    ins = ProgramLayout(program.Statements, 1, 0, 0)

\* a program with an if-expression nested in a branch of another has been
\* compiled: the inner OpJump targets the outer OpJump
C2_Witness ==
    /\ phase = "compiled"
    /\ Cardinality(JumpsAt(comp.instructions, OpJumpNotTruthy)) >= 2
    /\ \E p, q \in JumpsAt(comp.instructions, OpJump) :
            p < q /\ Target(comp.instructions, p) = q

\* how running a program ends, and the value popped last
Outcome(stmts) ==
    LET m == Run(NewVM(Bytecode(Compile(NewCompiler, Program(stmts)).c)))
    IN  [status |-> m.status, value |-> LastPoppedStackElem(m)]

\* False and Null, and nothing else, are falsy
Falsy(o) == o.obj = "Null" \/ (o.obj = "Boolean" /\ ~o.BoolValue)

SameValue(a, b) ==
    /\ a.obj = b.obj
    /\ a.obj = "Integer" => a.Value = b.Value
    /\ a.obj = "Boolean" => a.BoolValue = b.BoolValue

\* the program is the single statement `if (cond) {c} else {a}`
IsIfProgram ==
    /\ Supported(program)
    /\ Len(program.Statements) = 1
    /\ program.Statements[1].Expression.kind = "IfExpression"

TheIf == program.Statements[1].Expression

\* C3: the bytecode of `if (cond) {c} else {a}` leaves the value of c when
\* the value of cond is not False or Null (0 is truthy), the value of a
\* otherwise, and Null when cond is falsy and there is no else; it fails
\* when cond or the branch taken fails.  The value of a branch is the value
\* of its statements run as a program; a branch without statements has none.
C3_ConditionalValue ==
    (IsIfProgram /\ phase = "ran") =>
        LET cond == Outcome(<<ExpressionStatement(TheIf.Condition)>>)
            taken == IF Falsy(cond.value) THEN TheIf.Alternative
                     ELSE TheIf.Consequence
        IN  IF cond.status # "running" THEN machine.status = cond.status
            ELSE IF taken = NilNode
            THEN /\ machine.status = "running"
                 /\ LastPoppedStackElem(machine) = Null
            ELSE IF taken.Statements = <<>> THEN TRUE
            ELSE LET branch == Outcome(taken.Statements)
                 IN  /\ machine.status = branch.status
                     /\ branch.status = "running" =>
                            SameValue(LastPoppedStackElem(machine), branch.value)

\* C3, the two scenarios: `if (false) { 10 }` is null and
\* `if (1 < 2) { 10 } else { 20 }` is 10
C3_Scenarios ==
    phase = "ran" =>
        /\ program = Program(<<ExpressionStatement(Scenario3a)>>) =>
                machine.status = "running" /\ LastPoppedStackElem(machine) = Null
        /\ program = Program(<<ExpressionStatement(Scenario3b)>>) =>
                machine.status = "running"
                /\ LastPoppedStackElem(machine) = Integer(10)

NewSymbolTable == [store |-> {}, numDefinitions |-> 0]

\* object.Builtins, in the order of their fixed indices
Builtins == <<"len", "first", "last", "rest", "push", "puts">>

DefineBuiltin(s, index, name) ==
    [s EXCEPT !.store =
        {x \in @ : x.Name # name}
        \cup {[Name |-> name, Scope |-> "BUILTIN", Index |-> index]}]

\* Define: the table, in which name now stands for a new global slot
Define(s, name) ==
    [store |-> {x \in s.store : x.Name # name}
               \cup {[Name |-> name, Scope |-> "GLOBAL", Index |-> s.numDefinitions]},
     numDefinitions |-> s.numDefinitions + 1]

\* Resolve: the symbols name stands for (none when it is not defined)
Resolve(s, name) == {x \in s.store : x.Name = name}

\* compiler.NewWithState: a new compiler on the given table and constants
NewWithState(s, consts) ==
    [instructions |-> <<>>,
     constants |-> consts,
     lastInstruction |-> EmittedInstruction(0, 0),
     previousInstruction |-> EmittedInstruction(0, 0),
     symbolTable |-> s]

\* a let statement: the value, then the definition of the name, then
\* OpSetGlobal
compileLet(c, node) ==
    LET r == Compile(c, node.Value)
    IN  IF r.err # NoErr THEN r
        ELSE LET s == Define(r.c.symbolTable, node.Name.Name)
                 slot == CHOOSE x \in Resolve(s, node.Name.Name) : TRUE
             IN  Ok(emit([r.c EXCEPT !.symbolTable = s],
                         OpSetGlobal, <<slot.Index>>).c)

\* an identifier as a statement: OpGetGlobal of its slot, then OpPop
compileIdentifier(c, node) ==
    LET found == {x \in Resolve(c.symbolTable, node.Name) : x.Scope = "GLOBAL"}
    IN  IF found = {} THEN Fail(c, "undefined variable")
        ELSE Ok(emit(emit(c, OpGetGlobal, <<(CHOOSE x \in found : TRUE).Index>>).c,
                     OpPop, <<>>).c)

\* Compile of a line's program, statement by statement
RECURSIVE compileLine(_, _, _)
compileLine(c, stmts, i) ==
    IF i > Len(stmts) THEN Ok(c)
    ELSE LET node == stmts[i]
             r == IF node.kind = "LetStatement" THEN compileLet(c, node)
                  ELSE IF node.kind = "ExpressionStatement"
                          /\ node.Expression.kind = "Identifier"
                  THEN compileIdentifier(c, node.Expression)
                  ELSE Compile(c, node)
         IN  IF r.err # NoErr THEN r ELSE compileLine(r.c, stmts, i + 1)

(***************************************************************************)
(* package repl: Start's loop.  The parser is not among the sources at     *)
(* hand: a line of input stands for what ParseProgram makes of it, its     *)
(* program and its list of errors.                                         *)
(***************************************************************************)
Line(text, errors, prog) == [text |-> text, errors |-> errors, program |-> prog]

ReplLines ==
    {Line("1 +", <<"no prefix parse function for EOF found">>,
          Program(<<>>)),
     Line("", <<>>, Program(<<>>)),
     Line("1 < 0", <<>>,
          Program(<<ExpressionStatement(
              InfixExpression(IntegerLiteral(1), "<", IntegerLiteral(0)))>>)),
     Line("let a = 1", <<>>, Program(<<LetStatement("a", IntegerLiteral(1))>>)),
     Line("a", <<>>, Program(<<ExpressionStatement(Identifier("a"))>>)),
     Line("let a = 0; c", <<>>,
          Program(<<LetStatement("a", IntegerLiteral(0)),
                    ExpressionStatement(Identifier("c"))>>)),
     Line("-if (false) { 1 }", <<>>,
          Program(<<ExpressionStatement(PrefixExpression("-",
              IfExpression(Boolean(FALSE),
                           BlockStatement(<<ExpressionStatement(IntegerLiteral(1))>>),
                           NilNode)))>>)),
     Line("if (true) { }", <<>>,
          Program(<<ExpressionStatement(
              IfExpression(Boolean(TRUE), BlockStatement(<<>>), NilNode))>>))}

\* p.ParseProgram() and p.Errors()
ParseProgram(line) == [program |-> line.program, errors |-> line.errors]

\* what Start writes to out
PROMPT == <<"PROMPT">>

printParserErrors(errors) ==
    <<<<"MONKEY_FACE">>,
      <<"Woops! We ran into some monkey business here">>,
      <<" parser errors:">>>>
    \o [i \in 1..Len(errors) |-> <<"\t", errors[i]>>]

CompilationFailed(e) == <<"Woops! Compilation failed:", e>>
ExecutingFailed(e) == <<"Woops! Executing bytecode failed:", e>>
Inspected(o) == <<"Inspect", Inspect(o)>>

\* a plausible slip: the compiler runs whatever the parser reported
afterParseAlways(errors) == "compile"

\* if len(p.Errors()) != 0 { printParserErrors(...); continue }
afterParse(errors) == IF Len(errors) # 0 THEN "prompt" ELSE "compile"

\* if err := comp.Compile(program); err != nil { ...; continue }
afterCompile(e) == IF e # NoErr THEN "prompt" ELSE "run"

\* if err := machine.Run(); err != nil { fmt.Fprintf(...) }: no continue
afterRun(e) == "print"

\* constants = code.Constants, reached only when Compile returned nil
keptConstants(consts, r) ==
    IF r.err # NoErr THEN consts ELSE Bytecode(r.c).Constants

\* Go panics of the machine end the process
Panicked(vm) == vm.status \in {"panic", "underflow"}

ReplRest ==
    /\ program = <<>>
    /\ phase = "idle"
    /\ LexIdle

ReplInit ==
    /\ scanner \in SeqsUpTo(ReplLines, MaxLines)
    /\ replPc = "prompt"
    /\ parsed = ParseProgram(Line("", <<>>, Program(<<>>)))
    /\ constants = <<>>
    /\ globals = <<>>
    /\ symbolTable = LET b == Builtins
                     IN  DefineBuiltin(DefineBuiltin(DefineBuiltin(DefineBuiltin(
                         DefineBuiltin(DefineBuiltin(NewSymbolTable,
                            0, b[1]), 1, b[2]), 2, b[3]), 3, b[4]), 4, b[5]), 5, b[6])
    /\ out = <<>>
    /\ err = NoErr
    /\ comp = NewCompiler
    /\ machine = NewVM(Bytecode(NewCompiler))
    /\ ReplRest

\* fmt.Fprintf(out, PROMPT); out holds what this iteration writes
ReplPrompt ==
    /\ replPc = "prompt"
    /\ out' = <<PROMPT>>
    /\ replPc' = "scan"
    /\ UNCHANGED <<scanner, parsed, constants, globals, symbolTable,
                   err, comp, machine, program, phase, lexVars>>

\* scanner.Scan() finds a line: it is lexed and parsed
ReplScan ==
    /\ replPc = "scan"
    /\ scanner # <<>>
    /\ parsed' = ParseProgram(Head(scanner))
    /\ scanner' = Tail(scanner)
    /\ replPc' = "parsed"
    /\ UNCHANGED <<constants, globals, symbolTable, out,
                   err, comp, machine, program, phase, lexVars>>

\* scanner.Scan() finds the end of the input: Start returns
ReplEOF ==
    /\ replPc = "scan"
    /\ scanner = <<>>
    /\ replPc' = "returned"
    /\ UNCHANGED <<scanner, parsed, constants, globals, symbolTable, out,
                   err, comp, machine, program, phase, lexVars>>

\* the check of p.Errors()
ReplCheckParse ==
    /\ replPc = "parsed"
    /\ replPc' = afterParse(parsed.errors)
    /\ out' = IF Len(parsed.errors) # 0
              THEN out \o printParserErrors(parsed.errors) ELSE out
    /\ UNCHANGED <<scanner, parsed, constants, globals, symbolTable,
                   err, comp, machine, program, phase, lexVars>>

\* comp := compiler.NewWithState(symbolTable, constants); comp.Compile(program)
\* The symbol table is the one table all lines share: what Compile defines
\* in it stays, whatever Compile returns.
ReplCompile ==
    /\ replPc = "compile"
    /\ LET r == compileLine(NewWithState(symbolTable, constants),
                            parsed.program.Statements, 1)
       IN  /\ comp' = r.c
           /\ err' = r.err
           /\ symbolTable' = r.c.symbolTable
           /\ constants' = keptConstants(constants, r)
           /\ out' = IF r.err # NoErr THEN Append(out, CompilationFailed(r.err))
                     ELSE out
           /\ replPc' = afterCompile(r.err)
    /\ UNCHANGED <<scanner, parsed, globals, machine, program, phase, lexVars>>

\* machine := vm.NewWithGlobalsStore(code, globals); machine.Run()
\* The globals array is the one array all machines share.
ReplRun ==
    /\ replPc = "run"
    /\ LET m == Run(NewWithGlobalsStore(Bytecode(comp), globals))
       IN  /\ machine' = m
           /\ globals' = m.globals
           /\ err' = m.err
           /\ out' = IF ~Panicked(m) /\ m.err # NoErr
                     THEN Append(out, ExecutingFailed(m.err)) ELSE out
           /\ replPc' = IF Panicked(m) THEN "panicked" ELSE afterRun(m.err)
    /\ UNCHANGED <<scanner, parsed, constants, symbolTable, comp,
                   program, phase, lexVars>>

\* io.WriteString(out, lastPopped.Inspect()): a nil lastPopped panics
ReplPrint ==
    /\ replPc = "print"
    /\ LET lastPopped == LastPoppedStackElem(machine)
       IN  IF lastPopped = NilObj
           THEN /\ replPc' = "panicked"
                /\ out' = out
           ELSE /\ replPc' = "prompt"
                /\ out' = Append(out, Inspected(lastPopped))
    /\ UNCHANGED <<scanner, parsed, constants, globals, symbolTable,
                   err, comp, machine, program, phase, lexVars>>

ReplNext ==
    \/ ReplPrompt
    \/ ReplScan
    \/ ReplEOF
    \/ ReplCheckParse
    \/ ReplCompile
    \/ ReplRun
    \/ ReplPrint

ReplSpec == ReplInit /\ [][ReplNext]_vars

(***************************************************************************)
(* Claims about the REPL, checked under ReplSpec.                          *)
(***************************************************************************)
HasParserErrors == \E i \in DOMAIN out : out[i][1] = "MONKEY_FACE"
HasCompilationFailed == \E i \in DOMAIN out : out[i][1] = CompilationFailed("")[1]
HasExecutingFailed == \E i \in DOMAIN out : out[i][1] = ExecutingFailed("")[1]
HasInspected == \E i \in DOMAIN out : out[i][1] = "Inspect"

\* C4: in an iteration where Run returns an error the REPL writes the
\* prompt and the runtime diagnostic and nothing else, and goes to the next
\* prompt; the inspected last popped value is written only in an iteration
\* without a parse error, a compile error or a runtime error.
C4_OutputPerLine ==
    /\ HasExecutingFailed => Len(out) = 2 /\ replPc \in {"print", "prompt"}
    /\ replPc = "print" => ~HasExecutingFailed
    /\ HasInspected =>
          /\ ~HasParserErrors
          /\ ~HasCompilationFailed
          /\ ~HasExecutingFailed

\* the part of C4 that the loop keeps: a parse error or a compile error is
\* never followed by the inspected value, and each writes its diagnostic once
C4_NoValueAfterParseOrCompileError ==
    /\ HasInspected => ~HasParserErrors /\ ~HasCompilationFailed
    /\ HasCompilationFailed => Len(out) = 2
    /\ HasParserErrors => Len(out) = 1 + Len(printParserErrors(parsed.errors))

\* a runtime error has been reported and the value is written after it
C4_ValueAfterRuntimeError ==
    /\ replPc = "prompt"
    /\ HasExecutingFailed
    /\ out[Len(out)] = Inspected(Null)

IsPrefix(a, b) == Len(a) <= Len(b) /\ \A i \in DOMAIN a : b[i] = a[i]

CompileSucceeds == replPc = "compile" /\ replPc' = "run"
LineFails ==
    \/ replPc = "parsed" /\ replPc' = "prompt"
    \/ replPc = "compile" /\ replPc' = "prompt"

\* C5: the compiler of a line starts from the symbol table and the
\* constants left by the most recent line that compiled (no other step
\* changes either, and a compile that succeeds extends the constants it
\* was given); the machine of a line starts from the globals all earlier
\* machines used (no other step changes them); a line that ends in a parse
\* error or a compile error leaves all three as they were.
C5_StatePersistence ==
    [][/\ ~CompileSucceeds => constants' = constants /\ symbolTable' = symbolTable
       /\ CompileSucceeds =>
             /\ IsPrefix(constants, constants')
             /\ comp'.constants = constants'
             /\ comp'.symbolTable = symbolTable'
       /\ replPc # "run" => globals' = globals
       /\ replPc = "run" =>
             /\ IsPrefix(globals, globals')
             /\ machine'.constants = constants
       /\ LineFails =>
             /\ constants' = constants
             /\ globals' = globals
             /\ symbolTable' = symbolTable]_vars

\* the part of C5 that the loop keeps: everything but the symbol table of
\* a line whose Compile fails
C5_ConstantsAndGlobalsKept ==
    [][/\ ~CompileSucceeds => constants' = constants
       /\ replPc # "compile" => symbolTable' = symbolTable
       /\ CompileSucceeds =>
             /\ IsPrefix(constants, constants')
             /\ comp'.constants = constants'
             /\ comp'.symbolTable = symbolTable'
       /\ replPc # "run" => globals' = globals
       /\ replPc = "run" =>
             /\ IsPrefix(globals, globals')
             /\ machine'.constants = constants
       /\ LineFails => constants' = constants /\ globals' = globals]_vars

\* a line whose Compile failed has left a definition in the symbol table:
\* the name stands for a slot no machine has written
C5_LeakedDefinition ==
    /\ replPc = "prompt"
    /\ HasCompilationFailed
    /\ \E x \in symbolTable.store :
          /\ x.Scope = "GLOBAL"
          /\ getGlobal(globals, x.Index) = NilObj

\* a binding of an earlier line is hidden by a later line whose Compile
\* failed: a is defined, slot 0 holds its value, and a stands for slot 1
C5_HiddenBinding ==
    /\ replPc = "prompt"
    /\ HasCompilationFailed
    /\ getGlobal(globals, 0) = Integer(1)
    /\ \E x \in symbolTable.store : x.Name = "a" /\ x.Index = 1
    /\ getGlobal(globals, 1) = NilObj

RECURSIVE KnownKinds(_)
KnownKinds(node) ==
    CASE node.kind \in {"Program", "BlockStatement"} ->
            \A i \in 1..Len(node.Statements) :
                /\ node.Statements[i].kind = "ExpressionStatement"
                /\ KnownKinds(node.Statements[i].Expression)
      [] node.kind \in {"IntegerLiteral", "Boolean"} -> TRUE
      [] node.kind = "PrefixExpression" -> KnownKinds(node.Right)
      [] node.kind = "InfixExpression" ->
            KnownKinds(node.Left) /\ KnownKinds(node.Right)
      [] node.kind = "IfExpression" ->
            /\ KnownKinds(node.Condition)
            /\ KnownKinds(node.Consequence)
            /\ node.Alternative # NilNode => KnownKinds(node.Alternative)
      [] OTHER -> FALSE

\* Compile has returned
CompileReturned == phase # "parsed"

\* Compile has just returned: the machine is not made yet
JustCompiled == phase \in {"compiled", "compile failed"}

\* the statement of the program at which Compile returned its error
FailingStatement ==
    CHOOSE k \in 1..Len(program.Statements) :
        /\ Compile(NewCompiler, Program(SubSeq(program.Statements, 1, k))).err # NoErr
        /\ \A j \in 1..(k - 1) :
              Compile(NewCompiler, Program(SubSeq(program.Statements, 1, j))).err = NoErr

\* Compile's error is the error of the failing statement, and nothing is
\* emitted after it: not the code of a later statement, not the OpPop of
\* the failing statement
NothingEmittedAfterError ==
    LET k == FailingStatement
        before == Compile(NewCompiler,
                          Program(SubSeq(program.Statements, 1, k - 1))).c
        failed == Compile(before, program.Statements[k])
    IN  /\ err = failed.err
        /\ comp = failed.c
        /\ IsPrefix(before.instructions, comp.instructions)
        /\ comp.lastInstruction.Opcode = OpPop =>
              comp.lastInstruction.Position < Len(before.instructions)

\* C11: Compile returns an error whenever the program holds an operator
\* outside the supported set or a node of a kind Compile has no case for;
\* the error of a nested node is the error Compile returns, and nothing is
\* emitted after it.
C11_CompileErrors ==
    /\ CompileReturned /\ ~Supported(program) => phase = "compile failed"
    /\ phase = "compile failed" => err # NoErr /\ NothingEmittedAfterError

\* the part of C11 that Compile keeps: an operator outside the supported
\* set, in a program of nodes Compile has cases for, gives an error, and
\* nothing is emitted after an error
C11_UnknownOperatorErrors ==
    /\ CompileReturned /\ KnownKinds(program) /\ ~Supported(program)
          => phase = "compile failed"
    /\ phase = "compile failed" => err # NoErr /\ NothingEmittedAfterError

\* Compile has returned nil for a program with a node it has no case for
C11_SilentlySkipped ==
    /\ phase = "compiled"
    /\ ~KnownKinds(program)
    /\ err = NoErr

\* Compile has returned the error of a node nested in an if-expression
C11_NestedError ==
    /\ phase = "compile failed"
    /\ program.Statements[1].Expression.kind = "IfExpression"
    /\ comp.lastInstruction.Opcode = OpConstant

\* the opcodes of package code
Opcodes ==
    {OpConstant, OpPop, OpAdd, OpSub, OpMul, OpDiv, OpTrue, OpFalse, OpNull,
     OpEqual, OpNotEqual, OpGreaterThan, OpMinus, OpBang, OpJumpNotTruthy,
     OpJump, OpSetGlobal, OpGetGlobal}

\* the opcodes of the comparisons
ComparisonOpcodes == {OpEqual, OpNotEqual, OpGreaterThan}

\* the node with every `L < R` in it written as `R > L`
RECURSIVE Flip(_)
Flip(node) ==
    CASE node = NilNode -> NilNode
      [] node.kind = "Program" ->
            Program([i \in 1..Len(node.Statements) |-> Flip(node.Statements[i])])
      [] node.kind = "BlockStatement" ->
            BlockStatement([i \in 1..Len(node.Statements) |->
                                Flip(node.Statements[i])])
      [] node.kind = "ExpressionStatement" ->
            ExpressionStatement(Flip(node.Expression))
      [] node.kind = "PrefixExpression" ->
            PrefixExpression(node.Operator, Flip(node.Right))
      [] node.kind = "InfixExpression" ->
            IF node.Operator = "<"
            THEN InfixExpression(Flip(node.Right), ">", Flip(node.Left))
            ELSE InfixExpression(Flip(node.Left), node.Operator, Flip(node.Right))
      [] node.kind = "IfExpression" ->
            IfExpression(Flip(node.Condition), Flip(node.Consequence),
                         Flip(node.Alternative))
      [] OTHER -> node

\* a `<` occurs in the node, where Compile reaches it
RECURSIVE HasLess(_)
HasLess(node) ==
    CASE node = NilNode -> FALSE
      [] node.kind \in {"Program", "BlockStatement"} ->
            \E i \in 1..Len(node.Statements) : HasLess(node.Statements[i])
      [] node.kind = "ExpressionStatement" -> HasLess(node.Expression)
      [] node.kind = "PrefixExpression" -> HasLess(node.Right)
      [] node.kind = "InfixExpression" ->
            node.Operator = "<" \/ HasLess(node.Left) \/ HasLess(node.Right)
      [] node.kind = "IfExpression" ->
            \/ HasLess(node.Condition)
            \/ HasLess(node.Consequence)
            \/ HasLess(node.Alternative)
      [] OTHER -> FALSE

\* the program is the single statement `L < R`
IsLessProgram ==
    /\ Len(program.Statements) = 1
    /\ program.Statements[1].kind = "ExpressionStatement"
    /\ program.Statements[1].Expression.kind = "InfixExpression"
    /\ program.Statements[1].Expression.Operator = "<"

TheLess == program.Statements[1].Expression

\* C12 for the statement `L < R`: the code of R, then the code of L, then
\* OpGreaterThan (and the statement's OpPop)
C12_OperandsReversed ==
    (IsLessProgram /\ phase = "compiled") =>
        LET r == Compile(NewCompiler, TheLess.Right)
            l == Compile(r.c, TheLess.Left)
        IN  /\ r.err = NoErr /\ l.err = NoErr
            /\ IsPrefix(r.c.instructions, l.c.instructions)
            /\ comp.instructions = l.c.instructions \o <<OpGreaterThan, OpPop>>
            /\ comp.constants = l.c.constants

\* C12 for every `<` of the program: Compile gives the program and the
\* program with each `L < R` written as `R > L` the same instructions, the
\* same constants and the same error
C12_SameAsGreaterThan ==
    JustCompiled =>
        LET flipped == Compile(NewCompiler, Flip(program))
        IN  /\ flipped.c.instructions = comp.instructions
            /\ flipped.c.constants = comp.constants
            /\ flipped.err = err

\* C12: every instruction's opcode is one of package code, which has no
\* opcode for less-than, and a program with a `<` that compiled holds an
\* OpGreaterThan
C12_NoLessThanOpcode ==
    phase = "compiled" =>
        /\ \A p \in Starts(comp.instructions) : comp.instructions[p + 1] \in Opcodes
        /\ HasLess(program) =>
              \E p \in Starts(comp.instructions) :
                  comp.instructions[p + 1] = OpGreaterThan
        /\ IsLessProgram /\ KnownKinds(TheLess.Left) /\ KnownKinds(TheLess.Right)
           /\ ~HasLess(TheLess.Left) /\ ~HasLess(TheLess.Right) =>
              \A p \in Starts(comp.instructions) :
                  comp.instructions[p + 1] \in ComparisonOpcodes
                      => /\ comp.instructions[p + 1] = OpGreaterThan
                         /\ p = Len(comp.instructions) - 2

\* C12 for integer operands: the machine leaves the truth value of L < R
C12_IntegerResult ==
    (/\ IsLessProgram
     /\ TheLess.Left.kind = "IntegerLiteral"
     /\ TheLess.Right.kind = "IntegerLiteral"
     /\ phase = "ran") =>
        /\ machine.status = "running"
        /\ err = NoErr
        /\ LastPoppedStackElem(machine)
              = BooleanObj(TheLess.Left.Value < TheLess.Right.Value)

\* C12: `L < R` compiles to the code of R, the code of L and OpGreaterThan,
\* the bytecode of `R > L`; no opcode for less-than is emitted; for
\* integer operands the machine leaves the truth value of L < R.
C12_LessThanLowering ==
    /\ C12_OperandsReversed
    /\ C12_SameAsGreaterThan
    /\ C12_NoLessThanOpcode
    /\ C12_IntegerResult

\* `0 < 1` has run and left true: the constants are 1, then 0
C12_Witness ==
    /\ phase = "ran"
    /\ IsLessProgram
    /\ TheLess.Left = IntegerLiteral(0)
    /\ TheLess.Right = IntegerLiteral(1)
    /\ comp.constants = <<Integer(1), Integer(0)>>
    /\ comp.instructions = <<OpConstant, 0, 0, OpConstant, 0, 1, OpGreaterThan, OpPop>>
    /\ LastPoppedStackElem(machine) = True

\* the compilers on which Compile(c, node) calls removeLastPop, in the
\* order of the calls
RECURSIVE removeLastPopCalls(_, _)
RECURSIVE callsInStatements(_, _, _)

callsInStatements(c, stmts, i) ==
    IF i > Len(stmts) THEN <<>>
    ELSE LET r == Compile(c, stmts[i])
         IN  removeLastPopCalls(c, stmts[i])
             \o (IF r.err # NoErr THEN <<>>
                 ELSE callsInStatements(r.c, stmts, i + 1))

\* the calls of two nodes compiled one after the other
callsInBoth(c, first, second) ==
    LET r == Compile(c, first)
    IN  removeLastPopCalls(c, first)
        \o (IF r.err # NoErr THEN <<>> ELSE removeLastPopCalls(r.c, second))

\* the calls of the IfExpression case after the consequence is compiled
callsInAlternative(c0, node, jumpNotTruthyPos) ==
    LET c1 == IF lastInstructionIsPop(c0) THEN removeLastPop(c0) ELSE c0
        j == emit(c1, OpJump, <<9999>>)
        c2 == changeOperand(j.c, jumpNotTruthyPos, Len(j.c.instructions))
    IN  (IF lastInstructionIsPop(c0) THEN <<c0>> ELSE <<>>)
        \o (IF node.Alternative = NilNode THEN <<>>
            ELSE LET a == Compile(c2, node.Alternative)
                 IN  removeLastPopCalls(c2, node.Alternative)
                     \o (IF a.err = NoErr /\ lastInstructionIsPop(a.c)
                         THEN <<a.c>> ELSE <<>>))

callsInIf(c, node) ==
    LET cond == Compile(c, node.Condition)
    IN  removeLastPopCalls(c, node.Condition)
        \o (IF cond.err # NoErr THEN <<>>
            ELSE LET jnt == emit(cond.c, OpJumpNotTruthy, <<9999>>)
                     cons == Compile(jnt.c, node.Consequence)
                 IN  removeLastPopCalls(jnt.c, node.Consequence)
                     \o (IF cons.err # NoErr THEN <<>>
                         ELSE callsInAlternative(cons.c, node, jnt.pos)))

removeLastPopCalls(c, node) ==
    CASE node.kind \in {"Program", "BlockStatement"} ->
            callsInStatements(c, node.Statements, 1)
      [] node.kind = "ExpressionStatement" -> removeLastPopCalls(c, node.Expression)
      [] node.kind = "InfixExpression" ->
            IF node.Operator = "<" THEN callsInBoth(c, node.Right, node.Left)
            ELSE callsInBoth(c, node.Left, node.Right)
      [] node.kind = "PrefixExpression" -> removeLastPopCalls(c, node.Right)
      [] node.kind = "IfExpression" -> callsInIf(c, node)
      [] OTHER -> <<>>

\* lastInstruction is an OpPop, and it is the final byte of the buffer
PopIsLast(c) ==
    /\ c.lastInstruction.Opcode = OpPop
    /\ c.instructions # <<>>
    /\ c.lastInstruction.Position = Len(c.instructions) - 1
    /\ c.instructions[Len(c.instructions)] = OpPop

\* removeLastPop takes the final byte off the buffer and nothing else
RemovesOneByte(c) ==
    /\ c.instructions # <<>>
    /\ removeLastPop(c).instructions
          = SubSeq(c.instructions, 1, Len(c.instructions) - 1)
    /\ removeLastPop(c).constants = c.constants

\* between the removal on before and the removal on c an instruction was
\* emitted: the last instruction of c lies at or behind the offset the
\* buffer was cut to
EmittedSince(before, c) ==
    c.lastInstruction.Position >= Len(removeLastPop(before).instructions)

\* C13: whenever Compile calls removeLastPop, lastInstruction is an OpPop
\* at the final byte of the buffer, so the call takes exactly that OpPop
\* off; and between two calls an instruction is emitted.
C13_PeepholeBookkeeping ==
    JustCompiled =>
        LET calls == removeLastPopCalls(NewCompiler, program)
        IN  \A i \in 1..Len(calls) :
                /\ PopIsLast(calls[i])
                /\ RemovesOneByte(calls[i])
                /\ i > 1 => EmittedSince(calls[i - 1], calls[i])

\* a program is compiled with three calls of removeLastPop, one of them on
\* a buffer that ends in two OpPop (an identifier has no code of its own)
C13_Witness ==
    /\ phase = "compiled"
    /\ LET calls == removeLastPopCalls(NewCompiler, program)
       IN  /\ Len(calls) >= 3
           /\ \E i \in 1..Len(calls) :
                /\ calls[i].previousInstruction.Opcode = OpPop
                /\ calls[i].previousInstruction.Position
                      = Len(calls[i].instructions) - 2

====
